---------------------------- MODULE Spec2Model ----------------------------
(* A model of tfsnippet's weight_norm helper and of the two auto-encoder   *)
(* example scripts (gm_vae.py, planar_nf.py).                              *)
(*                                                                         *)
(* Two specifications:                                                     *)
(*   Spec      the graph-building functions weight_norm,                   *)
(*             gaussian_mixture_prior and p_net, called against one        *)
(*             default graph;                                              *)
(*   SpecMain  the control flow of the two scripts' main().                *)
(* Tensors are symbolic: a tensor is a record naming the operation that    *)
(* produced it and its operands.                                           *)
EXTENDS Integers, Sequences, FiniteSets

VARIABLES
    std,          \* config.p_z_given_y_std (global config)
    variables,    \* the names of the variables of the default graph
    scopes,       \* how often each default-named variable scope was opened
    last,         \* what the last call did: its arguments and its outcome
    ncalls,       \* number of calls made so far
    script,       \* which example script is run
    config,       \* the script's configuration
    pc,           \* main(): position in the script
    graph,        \* main(): what the graph construction built
    session,      \* main(): whether a session was created
    loop,         \* main(): the TrainLoop (summary_dir, epoch, summaries written)
    hooks,        \* main(): evaluator.after_run hooks
    pending,      \* main(): callbacks still to run after the current epoch
    log,          \* main(): observable effects (plots, metrics, runs)
    builds        \* main(): number of times the graph construction was started

libVars == <<std, variables, scopes, last, ncalls>>
mainVars == <<script, config, pc, graph, session, loop, hooks, pending, log, builds>>
vars == <<std, variables, scopes, last, ncalls,
          script, config, pc, graph, session, loop, hooks, pending, log, builds>>

-----------------------------------------------------------------------------
(* Bounds                                                                  *)

MaxCalls == 2
MaxEpoch == 21

-----------------------------------------------------------------------------
(* Values                                                                  *)

None == [kind |-> "None"]

\* The values config.p_z_given_y_std is documented to take.
DocumentedStd == {"one", "one_plus_softplus_std", "softplus_logstd", "unbound_logstd"}

\* Values a user can pass on the command line: the documented ones and others.
StdValues == DocumentedStd \cup {"", "logstd"}


\* A Python int (as opposed to None).
IntVal(n) == [kind |-> "int", v |-> n]

\* A tensor produced by operation op from operand x.
Tensor(op, x) == [kind |-> "tensor", op |-> op, x |-> x]

\* A graph variable, as a tensor.
Variable(name) == [kind |-> "variable", name |-> name]

-----------------------------------------------------------------------------
(* tf.get_variable under a reusing scope (sn.global_reuse): the variable   *)
(* is created on the first request and fetched on every later one.         *)

reuse_get_variable(vs, name) == vs \cup {name}

-----------------------------------------------------------------------------
(* gm_vae.py: gaussian_mixture_prior                                       *)

GmpVar(name) == <<"gaussian_mixture_prior", 0, name>>

Normal(mean, zstd, logstd) ==
    [kind |-> "Normal", mean |-> mean, std |-> zstd, logstd |-> logstd]

\* The message of the ValueError: the format string with the value filled in.
UnexpectedStdMessage(s) == <<"Unexpected value for config p_z_given_y_std: ", s>>

\* Mutant: the final else accepts the value as if it were 'unbound_logstd'.
z_std_branch_lenient(s, z_std_or_logstd) ==
    IF s = "one_plus_softplus_std"
    THEN [raised |-> "None", message |-> <<>>,
          z_std |-> Tensor("add_one", Tensor("softplus", z_std_or_logstd)),
          z_logstd |-> None]
    ELSE IF s = "softplus_logstd"
    THEN [raised |-> "None", message |-> <<>>,
          z_std |-> None, z_logstd |-> Tensor("softplus", z_std_or_logstd)]
    ELSE [raised |-> "None", message |-> <<>>,
          z_std |-> None, z_logstd |-> z_std_or_logstd]

\* The if/elif/else on config.p_z_given_y_std inside the outer else.
z_std_branch(s, z_std_or_logstd) ==
    IF s = "one_plus_softplus_std"
    THEN [raised |-> "None", message |-> <<>>,
          z_std |-> Tensor("add_one", Tensor("softplus", z_std_or_logstd)),
          z_logstd |-> None]
    ELSE IF s = "softplus_logstd"
    THEN [raised |-> "None", message |-> <<>>,
          z_std |-> None, z_logstd |-> Tensor("softplus", z_std_or_logstd)]
    ELSE IF s = "unbound_logstd"
    THEN [raised |-> "None", message |-> <<>>,
          z_std |-> None, z_logstd |-> z_std_or_logstd]
    ELSE [raised |-> "ValueError", message |-> UnexpectedStdMessage(s),
          z_std |-> None, z_logstd |-> None]

\* The whole function, called with y on a graph whose variables are vs while
\* config.p_z_given_y_std = s.  trace lists the graph operations the call
\* performed, in order; variables is the graph's variables afterwards.
gaussian_mixture_prior(s, y, vs) ==
    LET vs1 == reuse_get_variable(vs, GmpVar("z_prior_mean"))
        z_mean == Tensor("embedding_lookup", Variable(GmpVar("z_prior_mean")))
        trace1 == <<"get_variable:z_prior_mean", "embedding_lookup">>
    IN  IF s = "one"
        THEN [raised |-> "None", message |-> <<>>,
              result |-> Normal(z_mean, None, Tensor("zeros_like", z_mean)),
              variables |-> vs1,
              trace |-> trace1 \o <<"zeros_like">>]
        ELSE LET vs2 == reuse_get_variable(vs1, GmpVar("z_prior_std_or_logstd"))
                 t == Tensor("embedding_lookup",
                             Variable(GmpVar("z_prior_std_or_logstd")))
                 trace2 == trace1 \o
                     <<"get_variable:z_prior_std_or_logstd", "embedding_lookup">>
                 b == z_std_branch(s, t)
             IN  IF b.raised # "None"
                 THEN [raised |-> b.raised, message |-> b.message,
                       result |-> None, variables |-> vs2, trace |-> trace2]
                 ELSE [raised |-> "None", message |-> <<>>,
                       result |-> Normal(z_mean, b.z_std, b.z_logstd),
                       variables |-> vs2,
                       trace |-> trace2 \o <<"std_or_logstd">>]

-----------------------------------------------------------------------------
(* gm_vae.py: p_net                                                        *)

\* Mutant: the deprecated argument is ignored.
n_y_of_ignoring(n_y, n_samples) ==
    [warnings |-> <<>>, n_y |-> n_y]

\* The handling of the deprecated n_samples argument: the warnings issued
\* and the value n_y has afterwards.
n_y_of(n_y, n_samples) ==
    IF n_samples # None
    THEN [warnings |-> <<"n_samples is deprecated, use n_y instead.">>,
          n_y |-> n_samples]
    ELSE [warnings |-> <<>>, n_y |-> n_y]

\* The variables of the dense layers of p_net (created once: global_reuse).
PNetVars == {<<"p_net", 0, "dense">>, <<"p_net", 0, "dense_1">>,
             <<"p_net", 0, "x_logits">>}

\* The whole function.  y_n_samples is the n_samples given to net.add('y').
p_net(s, n_y, n_z, n_samples, vs) ==
    LET d == n_y_of(n_y, n_samples)
        trace1 == <<"BayesianNet", "add:y">>
        g == gaussian_mixture_prior(s, Tensor("sample", Tensor("Categorical", None)), vs)
    IN  IF g.raised # "None"
        THEN [raised |-> g.raised, message |-> g.message, result |-> None,
              warnings |-> d.warnings, y_n_samples |-> d.n_y,
              variables |-> g.variables, trace |-> trace1 \o g.trace]
        ELSE [raised |-> "None", message |-> <<>>,
              result |-> [kind |-> "BayesianNet", y_n_samples |-> d.n_y,
                          z |-> g.result, z_n_samples |-> n_z],
              warnings |-> d.warnings, y_n_samples |-> d.n_y,
              variables |-> g.variables \cup PNetVars,
              trace |-> trace1 \o g.trace \o
                        <<"add:z", "dense", "dense", "dense:x_logits", "add:x">>]

-----------------------------------------------------------------------------
(* Helpers of tfsnippet.utils used by weight_norm                          *)

StrVal(t) == [kind |-> "str", v |-> t]
IntAxis(n) == [kind |-> "int", v |-> n]
TupleAxis(t) == [kind |-> "tuple", v |-> t]
Range(f) == {f[i] : i \in DOMAIN f}

\* An int becomes a one-element tuple, a tuple of ints is kept.
validate_int_or_int_tuple_arg(axis) ==
    IF axis.kind = "int" THEN <<axis.v>> ELSE axis.v

\* Negative axes count from the end; an axis outside the rank is an error.
resolve_negative_axis(ndims, axis) ==
    LET r == [i \in DOMAIN axis |-> IF axis[i] < 0 THEN axis[i] + ndims ELSE axis[i]]
    IN  IF \E i \in DOMAIN r : r[i] < 0 \/ r[i] >= ndims
        THEN [raised |-> "ValueError", axis |-> <<>>]
        ELSE [raised |-> "None", axis |-> r]

\* ParamSpec(kernel_shape, dtype).validate(scale): the shape has to match.
param_spec_validate(kernel_shape, scale) ==
    IF scale.shape = kernel_shape
    THEN [raised |-> "None", value |-> scale]
    ELSE [raised |-> "ValueError", value |-> None]

-----------------------------------------------------------------------------
(* TensorFlow: tf.variable_scope(scope, default_name=...) and              *)
(* tf.get_variable                                                         *)

\* A scope argument: a scope name, or a VariableScope object that reuses.
ReusingScope(t) == [kind |-> "VariableScope", v |-> t, reuse |-> TRUE]

\* The scope entered: the given one, or a fresh one made from default_name.
variable_scope(scope, default_name, sc) ==
    IF scope # None
    THEN [name |-> <<scope.v, 0>>, scopes |-> sc,
          reuse |-> scope.kind = "VariableScope"]
    ELSE [name |-> <<default_name, sc[default_name]>>,
          scopes |-> [sc EXCEPT ![default_name] = @ + 1],
          reuse |-> FALSE]

\* A reusing scope fetches an existing variable and fails without one; any
\* other scope creates the variable and fails when it exists already.
get_variable(vs, name, reuse) ==
    IF reuse
    THEN IF name \in vs
         THEN [raised |-> "None", variables |-> vs]
         ELSE [raised |-> "ValueError", variables |-> vs]
    ELSE IF name \in vs
         THEN [raised |-> "ValueError", variables |-> vs]
         ELSE [raised |-> "None", variables |-> vs \cup {name}]

-----------------------------------------------------------------------------
(* weight_norm_.py: weight_norm                                            *)

Kernel(shape) == [kind |-> "tensor", op |-> "kernel", shape |-> shape]
ScaleTensor(shape) == [kind |-> "tensor", op |-> "scale_arg", shape |-> shape]
L2Normalize(k, reduce_axis) ==
    [kind |-> "tensor", op |-> "l2_normalize", x |-> k, axis |-> reduce_axis]
Mul(a, b) == [kind |-> "tensor", op |-> "mul", x |-> a, y |-> b]

UseScaleMessage == <<"use_scale is False but scale is specified.">>

\* Mutant: the parameter check is missing.
check_parameters_missing(use_scale, scale) == FALSE

\* "check the parameters": whether the ValueError is raised.
check_parameters(use_scale, scale) == (~use_scale) /\ scale # None

\* name or 'weight_norm'
default_name(name) == IF name # None THEN name.v ELSE "weight_norm"

\* tuple(a for a in range(len(kernel_shape)) if a not in axis)
reduce_axis_of(ndims, axis) ==
    SelectSeq([i \in 1..ndims |-> i - 1], LAMBDA a : a \notin Range(axis))

\* Mutant: a variable is created although a scale tensor was supplied.
apply_scale_always_new(use_scale, scale, kernel, vs, vsc) ==
    IF use_scale
    THEN LET gv == get_variable(vs, <<vsc.name[1], vsc.name[2], "scale">>, vsc.reuse)
         IN  IF gv.raised # "None"
             THEN [raised |-> gv.raised, kernel |-> None,
                   variables |-> vs, trace |-> <<"get_variable:scale">>]
             ELSE [raised |-> "None",
                   kernel |-> Mul(kernel, Variable(<<vsc.name[1], vsc.name[2], "scale">>)),
                   variables |-> gv.variables,
                   trace |-> <<"get_variable:scale", "mul">>]
    ELSE [raised |-> "None", kernel |-> kernel, variables |-> vs, trace |-> <<>>]

\* "create the scaling variable": the body of the variable scope after the
\* kernel has been normalized.
apply_scale(use_scale, scale, kernel, vs, vsc) ==
    IF use_scale
    THEN IF scale = None
         THEN LET gv == get_variable(vs, <<vsc.name[1], vsc.name[2], "scale">>, vsc.reuse)
              IN  IF gv.raised # "None"
                  THEN [raised |-> gv.raised, kernel |-> None,
                        variables |-> vs, trace |-> <<"get_variable:scale">>]
                  ELSE [raised |-> "None",
                        kernel |-> Mul(kernel,
                                       Variable(<<vsc.name[1], vsc.name[2], "scale">>)),
                        variables |-> gv.variables,
                        trace |-> <<"get_variable:scale", "mul">>]
         ELSE [raised |-> "None", kernel |-> Mul(kernel, scale),
               variables |-> vs, trace |-> <<"mul">>]
    ELSE [raised |-> "None", kernel |-> kernel, variables |-> vs, trace |-> <<>>]

\* The whole function, called with arguments a on a graph with variables vs
\* and scope counters sc.
weight_norm(a, vs, sc) ==
    IF check_parameters(a.use_scale, a.scale)
    THEN [raised |-> "ValueError", message |-> UseScaleMessage, result |-> None,
          variables |-> vs, scopes |-> sc, trace |-> <<>>]
    ELSE
    LET kernel_shape == a.kernel.shape
        trace1 == <<"convert_to_tensor">>
        v == IF a.scale # None
             THEN param_spec_validate(kernel_shape, a.scale)
             ELSE [raised |-> "None", value |-> None]
    IN  IF v.raised # "None"
        THEN [raised |-> v.raised, message |-> <<"ParamSpec.validate">>,
              result |-> None, variables |-> vs, scopes |-> sc,
              trace |-> trace1 \o <<"validate">>]
        ELSE
        LET trace2 == IF a.scale # None THEN trace1 \o <<"validate">> ELSE trace1
            ax == resolve_negative_axis(Len(kernel_shape),
                                        validate_int_or_int_tuple_arg(a.axis))
        IN  IF ax.raised # "None"
            THEN [raised |-> ax.raised, message |-> <<"resolve_negative_axis">>,
                  result |-> None, variables |-> vs, scopes |-> sc,
                  trace |-> trace2 \o <<"resolve_negative_axis">>]
            ELSE
            LET reduce_axis == reduce_axis_of(Len(kernel_shape), ax.axis)
                vsc == variable_scope(a.scope, default_name(a.name), sc)
                normalized == L2Normalize(a.kernel, reduce_axis)
                trace3 == trace2 \o
                    <<"resolve_negative_axis", "variable_scope", "l2_normalize">>
                r == apply_scale(a.use_scale, v.value, normalized, vs, vsc)
            IN  [raised |-> r.raised,
                 message |-> IF r.raised # "None" THEN <<"get_variable">> ELSE <<>>,
                 result |-> r.kernel, variables |-> r.variables,
                 scopes |-> vsc.scopes, trace |-> trace3 \o r.trace]

-----------------------------------------------------------------------------
(* Specification Spec: calls of the graph-building functions               *)

KernelShapes == {<<2, 3>>}
ScaleShapes == {<<2, 3>>, <<3>>}
Axes == {IntAxis(-1), IntAxis(0), IntAxis(2), TupleAxis(<<0, 1>>)}
ScaleArgs == {None} \cup {ScaleTensor(sh) : sh \in ScaleShapes}
NameArgs == {None, StrVal("w")}
ScopeArgs == {None, StrVal("shared"), ReusingScope("shared")}
DefaultNames == {"weight_norm", "w"}
SampleCounts == {None, IntVal(1), IntVal(2)}

NoCall ==
    [fn |-> "none", args |-> None, raised |-> "None", message |-> <<>>,
     result |-> None, trace |-> <<>>, before |-> {}, warnings |-> <<>>,
     y_n_samples |-> None]

\* The state of the script variables while no script runs.
MainIdle ==
    /\ script = "none"
    /\ config = None
    /\ pc = "idle"
    /\ graph = None
    /\ session = FALSE
    /\ loop = None
    /\ hooks = <<>>
    /\ pending = <<>>
    /\ log = None
    /\ builds = 0

Init ==
    /\ std \in StdValues
    /\ variables = {}
    /\ scopes = [n \in DefaultNames |-> 0]
    /\ last = NoCall
    /\ ncalls = 0
    /\ MainIdle

WeightNormCall ==
    /\ ncalls < MaxCalls
    /\ \E k \in KernelShapes, ax \in Axes, us \in BOOLEAN, sa \in ScaleArgs,
          nm \in NameArgs, sp \in ScopeArgs :
          LET a == [kernel |-> Kernel(k), axis |-> ax, use_scale |-> us,
                    scale |-> sa, name |-> nm, scope |-> sp]
              r == weight_norm(a, variables, scopes)
          IN  /\ variables' = r.variables
              /\ scopes' = r.scopes
              /\ last' = [fn |-> "weight_norm", args |-> a, raised |-> r.raised,
                          message |-> r.message, result |-> r.result,
                          trace |-> r.trace, before |-> variables,
                          warnings |-> <<>>, y_n_samples |-> None]
    /\ ncalls' = ncalls + 1
    /\ UNCHANGED <<std, mainVars>>

GaussianMixturePriorCall ==
    /\ ncalls < MaxCalls
    /\ LET y == Tensor("y", None)
           r == gaussian_mixture_prior(std, y, variables)
       IN  /\ variables' = r.variables
           /\ last' = [fn |-> "gaussian_mixture_prior", args |-> [y |-> y],
                       raised |-> r.raised, message |-> r.message,
                       result |-> r.result, trace |-> r.trace,
                       before |-> variables, warnings |-> <<>>,
                       y_n_samples |-> None]
    /\ ncalls' = ncalls + 1
    /\ UNCHANGED <<std, scopes, mainVars>>

PNetCall ==
    /\ ncalls < MaxCalls
    /\ \E n_y \in SampleCounts, n_z \in SampleCounts, n_samples \in SampleCounts :
          LET r == p_net(std, n_y, n_z, n_samples, variables)
          IN  /\ variables' = r.variables
              /\ last' = [fn |-> "p_net",
                          args |-> [n_y |-> n_y, n_z |-> n_z, n_samples |-> n_samples],
                          raised |-> r.raised, message |-> r.message,
                          result |-> r.result, trace |-> r.trace,
                          before |-> variables, warnings |-> r.warnings,
                          y_n_samples |-> r.y_n_samples]
    /\ ncalls' = ncalls + 1
    /\ UNCHANGED <<std, scopes, mainVars>>

Next ==
    \/ WeightNormCall
    \/ GaussianMixturePriorCall
    \/ PNetCall

Spec == Init /\ [][Next]_vars

-----------------------------------------------------------------------------
(* gm_vae.py and planar_nf.py: main()                                      *)

\* Evaluator, plots and classifier callbacks run every EvalFreq epochs.
EvalFreq == 10

TrainNSamples == {None, IntVal(1), IntVal(25)}
ResultDirs == {None, StrVal("out")}

\* MLResults(result_dir)
MLResults(result_dir) == [kind |-> "MLResults", result_dir |-> result_dir]

\* results.system_path(rel)
system_path(results, rel) == [kind |-> "path", results |-> results, rel |-> rel]

Add(a, b) == [kind |-> "tensor", op |-> "add", x |-> a, y |-> b]

QNetVars == {<<"q_net", 0, "dense">>, <<"q_net", 0, "dense_1">>,
             <<"q_net", 0, "z_mean">>, <<"q_net", 0, "z_logstd">>}
GmQNetVars == QNetVars \cup {<<"q_net", 0, "y_logits">>, <<"q_net", 0, "dense_2">>}
NfPNetVars == {<<"p_net", 0, "dense">>, <<"p_net", 0, "dense_1">>,
               <<"p_net", 0, "x_logits">>}
PosteriorFlowVars == {<<"posterior_flow", 0, "planar_normalizing_flows">>}

\* reinforce_baseline_net: the two dense layers it creates.
BaselineVars == {<<"reinforce_baseline_net", 0, "dense">>,
                 <<"reinforce_baseline_net", 0, "dense_1">>}

\* Mutant: the condition on train_n_samples is inverted.
training_objective_inverted(train_n_samples) ==
    IF train_n_samples # None
    THEN [estimator |-> "reinforce", baseline |-> TRUE, new_vars |-> BaselineVars,
          loss |-> Add(Tensor("reduce_mean",
                              Tensor("reinforce", Tensor("reinforce_baseline_net", None))),
                       Tensor("get_regularization_loss", None))]
    ELSE [estimator |-> "vimco", baseline |-> FALSE, new_vars |-> {},
          loss |-> Add(Tensor("reduce_mean", Tensor("vimco", None)),
                       Tensor("get_regularization_loss", None))]

\* gm_vae: the choice of the training objective and the loss.
training_objective(train_n_samples) ==
    IF train_n_samples = None
    THEN [estimator |-> "reinforce", baseline |-> TRUE, new_vars |-> BaselineVars,
          loss |-> Add(Tensor("reduce_mean",
                              Tensor("reinforce", Tensor("reinforce_baseline_net", None))),
                       Tensor("get_regularization_loss", None))]
    ELSE [estimator |-> "vimco", baseline |-> FALSE, new_vars |-> {},
          loss |-> Add(Tensor("reduce_mean", Tensor("vimco", None)),
                       Tensor("get_regularization_loss", None))]

\* planar_nf: the training objective and the loss.
training_objective_nf ==
    [estimator |-> "sgvb", baseline |-> FALSE, new_vars |-> {},
     loss |-> Add(Tensor("reduce_mean", Tensor("sgvb", None)),
                  Tensor("get_regularization_loss", None))]

\* Mutant: an exception of the chained p_net is swallowed.
chain_outcome_swallowed(r) == "built"

\* gm_vae: train_q_net.chain(p_net, ...) is not inside any try block, so an
\* exception raised by p_net leaves main.
chain_outcome(r) == IF r.raised # "None" THEN "raised" ELSE "built"

\* Mutant: the summary directory is passed whatever write_summary is.
summary_dir_gm_always(write_summary, results) ==
    system_path(results, "train_summary")

\* gm_vae: the summary_dir argument of the TrainLoop.
summary_dir_gm(write_summary, results) ==
    IF write_summary THEN system_path(results, "train_summary") ELSE None

\* planar_nf: the summary_dir argument of the TrainLoop.
summary_dir_nf(write_summary, results) ==
    IF write_summary THEN system_path(results, "train_summary") ELSE None

\* The TrainLoop writes a training summary for an epoch only when it was
\* given a summary directory.
summaries_written(summary_dir) == IF summary_dir # None THEN 1 ELSE 0

\* gm_vae plot_samples: the save_images_collection call.
plot_samples_gm(results, epoch) ==
    [filename |-> <<"plotting/", epoch, ".png">>, results |-> results]

\* planar_nf plot_samples: the save_images_collection call (no results given).
plot_samples_nf(results, epoch) ==
    [filename |-> <<"plotting/", epoch, ".png">>, results |-> None]

\* The callbacks registered with trainer.evaluate_after_epochs, in order.
registered_callbacks(sc) ==
    IF sc = "gm_vae"
    THEN <<"evaluator", "plot_samples", "train_classifier", "evaluate_classifier">>
    ELSE <<"evaluator", "plot_samples">>

\* The state of the function-call variables while a script runs.
LibIdle ==
    /\ scopes = [n \in DefaultNames |-> 0]
    /\ last = NoCall
    /\ ncalls = 0

InitMain ==
    /\ script \in {"gm_vae", "planar_nf"}
    /\ std \in (IF script = "gm_vae" THEN StdValues ELSE {"unbound_logstd"})
    /\ config \in [train_n_samples : IF script = "gm_vae" THEN TrainNSamples ELSE {None},
                   write_summary : BOOLEAN,
                   max_epoch : 1..MaxEpoch,
                   result_dir : ResultDirs]
    /\ variables = {}
    /\ pc = "start"
    /\ graph = None
    /\ session = FALSE
    /\ loop = None
    /\ hooks = <<>>
    /\ pending = <<>>
    /\ log = [dirs |-> {}, plots |-> {}, metrics |-> <<>>, eval_runs |-> 0,
              epochs |-> 0, fits |-> 0, closed |-> FALSE]
    /\ builds = 0
    /\ LibIdle

\* results = MLResults(result_dir); results.make_dirs(...)
OpenResults ==
    /\ pc = "start"
    /\ pc' = "opened"
    /\ log' = [log EXCEPT !.dirs = {"plotting", "train_summary"}]
    /\ UNCHANGED <<libVars, script, config, graph, session, loop, hooks, pending, builds>>

\* gm_vae: placeholders, model, optimizer and plotting graph.
BuildGraphGm ==
    /\ pc = "opened"
    /\ script = "gm_vae"
    /\ builds' = builds + 1
    /\ LET r == p_net(std, None, None, None, variables \cup GmQNetVars)
           o == training_objective(config.train_n_samples)
           outcome == chain_outcome(r)
       IN  /\ pc' = outcome
           /\ IF outcome = "raised"
              THEN /\ graph' = [status |-> "raised", raised |-> r.raised,
                                message |-> r.message]
                   /\ variables' = r.variables
              ELSE /\ graph' = [status |-> "built", estimator |-> o.estimator,
                                baseline |-> o.baseline, loss |-> o.loss]
                   /\ variables' = r.variables \cup o.new_vars
    /\ UNCHANGED <<std, scopes, last, ncalls, script, config, session, loop,
                   hooks, pending, log>>

\* planar_nf: placeholders, model, optimizer and plotting graph.
BuildGraphNf ==
    /\ pc = "opened"
    /\ script = "planar_nf"
    /\ builds' = builds + 1
    /\ LET o == training_objective_nf
       IN  /\ pc' = "built"
           /\ graph' = [status |-> "built", estimator |-> o.estimator,
                        baseline |-> o.baseline, loss |-> o.loss]
           /\ variables' = variables \cup PosteriorFlowVars \cup QNetVars \cup NfPNetVars
    /\ UNCHANGED <<std, scopes, last, ncalls, script, config, session, loop,
                   hooks, pending, log>>

\* load_mnist, the data flows, and sn.utils.create_session().as_default()
CreateSession ==
    /\ pc = "built"
    /\ pc' = "session"
    /\ session' = TRUE
    /\ UNCHANGED <<libVars, script, config, graph, loop, hooks, pending, log, builds>>

\* with sn.TrainLoop(...) as loop: trainer, evaluator, hooks and callbacks
EnterTrainLoop ==
    /\ pc = "session"
    /\ pc' = "epoch"
    /\ loop' = [summary_dir |->
                    IF script = "gm_vae"
                    THEN summary_dir_gm(config.write_summary, MLResults(config.result_dir))
                    ELSE summary_dir_nf(config.write_summary, MLResults(config.result_dir)),
                epoch |-> 0, summaries |-> 0,
                callbacks |-> registered_callbacks(script)]
    /\ hooks' = <<"results.update_metrics">>
    /\ UNCHANGED <<libVars, script, config, graph, session, pending, log, builds>>

\* trainer.run(): one epoch of training steps; afterwards the callbacks due
TrainEpoch ==
    /\ pc = "epoch"
    /\ pending = <<>>
    /\ loop.epoch < config.max_epoch
    /\ loop' = [loop EXCEPT !.epoch = @ + 1,
                            !.summaries = @ + summaries_written(loop.summary_dir)]
    /\ log' = [log EXCEPT !.epochs = @ + 1]
    /\ pending' = IF (loop.epoch + 1) % EvalFreq = 0 THEN loop.callbacks ELSE <<>>
    /\ UNCHANGED <<libVars, script, config, pc, graph, session, hooks, builds>>

\* evaluator.run(), then its after_run hooks
RunEvaluator ==
    /\ pc = "epoch"
    /\ pending # <<>>
    /\ Head(pending) = "evaluator"
    /\ pending' = Tail(pending)
    /\ log' = [log EXCEPT
                 !.eval_runs = @ + 1,
                 !.metrics = @ \o [i \in DOMAIN hooks |->
                                     [by |-> "evaluator", epoch |-> loop.epoch,
                                      hook |-> hooks[i]]]]
    /\ UNCHANGED <<libVars, script, config, pc, graph, session, loop, hooks, builds>>

\* plot_samples(loop)
PlotSamples ==
    /\ pc = "epoch"
    /\ pending # <<>>
    /\ Head(pending) = "plot_samples"
    /\ pending' = Tail(pending)
    /\ log' = [log EXCEPT
                 !.plots = @ \cup
                    {IF script = "gm_vae"
                     THEN plot_samples_gm(MLResults(config.result_dir), loop.epoch)
                     ELSE plot_samples_nf(MLResults(config.result_dir), loop.epoch)}]
    /\ UNCHANGED <<libVars, script, config, pc, graph, session, loop, hooks, builds>>

\* gm_vae: train_classifier(loop)
TrainClassifier ==
    /\ pc = "epoch"
    /\ pending # <<>>
    /\ Head(pending) = "train_classifier"
    /\ pending' = Tail(pending)
    /\ log' = [log EXCEPT !.fits = @ + 1]
    /\ UNCHANGED <<libVars, script, config, pc, graph, session, loop, hooks, builds>>

\* gm_vae: evaluate_classifier(loop)
EvaluateClassifier ==
    /\ pc = "epoch"
    /\ pending # <<>>
    /\ Head(pending) = "evaluate_classifier"
    /\ pending' = Tail(pending)
    /\ log' = [log EXCEPT
                 !.metrics = Append(@, [by |-> "evaluate_classifier",
                                        epoch |-> loop.epoch,
                                        hook |-> "results.update_metrics"])]
    /\ UNCHANGED <<libVars, script, config, pc, graph, session, loop, hooks, builds>>

\* the TrainLoop and the session are left
ExitTrainLoop ==
    /\ pc = "epoch"
    /\ pending = <<>>
    /\ loop.epoch >= config.max_epoch
    /\ pc' = "trained"
    /\ UNCHANGED <<libVars, script, config, graph, session, loop, hooks, pending,
                   log, builds>>

\* print the final metrics and close the results object
Finish ==
    /\ pc = "trained"
    /\ pc' = "done"
    /\ log' = [log EXCEPT !.closed = TRUE]
    /\ UNCHANGED <<libVars, script, config, graph, session, loop, hooks, pending, builds>>

NextMain ==
    \/ OpenResults
    \/ BuildGraphGm
    \/ BuildGraphNf
    \/ CreateSession
    \/ EnterTrainLoop
    \/ TrainEpoch
    \/ RunEvaluator
    \/ PlotSamples
    \/ TrainClassifier
    \/ EvaluateClassifier
    \/ ExitTrainLoop
    \/ Finish

SpecMain == InitMain /\ [][NextMain]_vars

-----------------------------------------------------------------------------
(* Properties of the graph-building functions (checked under Spec)         *)

\* C1: a gaussian_mixture_prior call that raises the ValueError has, when the
\* error is raised, created no variable and performed no graph operation.
C1_FailsBeforeAnyTensor ==
    (last.fn = "gaussian_mixture_prior" /\ last.raised = "ValueError")
        => (last.trace = <<>> /\ variables = last.before)

\* C2: a weight_norm call with use_scale false and a scale given raises the
\* ValueError of the parameter check before anything else is done: nothing
\* was converted, validated, resolved or entered, and the graph's variables
\* are those from before the call, whatever the other arguments are.
C2_UseScaleCheckFirst ==
    (last.fn = "weight_norm" /\ ~last.args.use_scale /\ last.args.scale # None)
        => /\ last.raised = "ValueError"
           /\ last.message = UseScaleMessage
           /\ last.trace = <<>>
           /\ last.result = None
           /\ variables = last.before

\* C2 witness: the check fires although the axis is invalid and the scale is
\* wrongly shaped as well.
C2_Witness ==
    /\ last.fn = "weight_norm"
    /\ ~last.args.use_scale
    /\ last.args.scale = ScaleTensor(<<3>>)
    /\ last.args.axis = IntAxis(2)
    /\ last.raised = "ValueError"
    /\ last.before # {}

\* C3: gaussian_mixture_prior returns a Normal distribution for each of the
\* four documented values of config.p_z_given_y_std, and for every other
\* value raises a ValueError whose message contains the value and returns
\* no distribution.
C3_ExactlyFourValues ==
    last.fn = "gaussian_mixture_prior"
        => IF std \in DocumentedStd
           THEN last.raised = "None" /\ last.result.kind = "Normal"
           ELSE /\ last.raised = "ValueError"
                /\ \E i \in DOMAIN last.message : last.message[i] = std
                /\ last.result = None

\* C3 witness: an undocumented value was rejected.
C3_Witness ==
    /\ last.fn = "gaussian_mixture_prior"
    /\ std = "logstd"
    /\ last.raised = "ValueError"

C9_NSamplesTakesPrecedence ==
    last.fn = "p_net"
        => IF last.args.n_samples # None
           THEN Len(last.warnings) = 1 /\ last.y_n_samples = last.args.n_samples
           ELSE last.warnings = <<>> /\ last.y_n_samples = last.args.n_y

\* C9 witness: both arguments were given and they differ.
C9_Witness ==
    /\ last.fn = "p_net"
    /\ last.args.n_samples = IntVal(2)
    /\ last.args.n_y = IntVal(1)
    /\ last.y_n_samples = IntVal(2)
    /\ last.raised = "None"

-----------------------------------------------------------------------------
(* Properties of the scripts (checked under SpecMain)                      *)

\* C4: when gm_vae runs with an unsupported p_z_given_y_std, the ValueError
\* raised while the graph is built leaves main: from then on the script stays
\* in its failed state, no session is created, no epoch, evaluation, plot or
\* classifier callback has run, and the graph was built at most once.
C4_ValidationFailureIsFatal ==
    (script = "gm_vae" /\ std \notin DocumentedStd /\ builds > 0)
        => /\ pc = "raised"
           /\ graph.status = "raised"
           /\ graph.raised = "ValueError"
           /\ ~session
           /\ loop = None
           /\ log.epochs = 0
           /\ log.eval_runs = 0
           /\ log.plots = {}
           /\ log.fits = 0
           /\ log.metrics = <<>>
           /\ builds = 1

\* C4 witness: the graph construction of gm_vae has failed.
C4_Witness ==
    /\ script = "gm_vae"
    /\ std = "logstd"
    /\ pc = "raised"
    /\ builds = 1

\* C6: once gm_vae has built its graph, the estimator is REINFORCE exactly
\* when train_n_samples is None and VIMCO otherwise, the baseline network
\* exists exactly in the REINFORCE case, and the loss is the mean of the
\* estimator's loss plus the regularization loss.
C6_ObjectiveByTrainNSamples ==
    (script = "gm_vae" /\ pc \in {"built", "session", "epoch", "trained", "done"})
        => /\ graph.estimator =
                (IF config.train_n_samples = None THEN "reinforce" ELSE "vimco")
           /\ graph.baseline <=> (config.train_n_samples = None)
           /\ (BaselineVars \subseteq variables) <=> (config.train_n_samples = None)
           /\ (BaselineVars \cap variables = {}) <=> (config.train_n_samples # None)
           /\ graph.loss.op = "add"
           /\ graph.loss.x.op = "reduce_mean"
           /\ graph.loss.x.x.op = graph.estimator
           /\ graph.loss.y.op = "get_regularization_loss"

\* C6 witness: gm_vae ran to its end with the REINFORCE objective.
C6_Witness ==
    /\ script = "gm_vae"
    /\ pc = "done"
    /\ config.train_n_samples = None
    /\ graph.estimator = "reinforce"

\* C7: in both scripts the TrainLoop is given the results object's
\* train_summary path exactly when write_summary is true and None otherwise,
\* and without write_summary no training summary is ever written.
C7_SummaryOnlyOnRequest ==
    pc \in {"epoch", "trained", "done"}
        => /\ config.write_summary
                => loop.summary_dir =
                       system_path(MLResults(config.result_dir), "train_summary")
           /\ (~config.write_summary)
                => (loop.summary_dir = None /\ loop.summaries = 0)

\* C7 witness: a script trained for several epochs without write_summary.
C7_Witness ==
    /\ script = "planar_nf"
    /\ pc = "done"
    /\ ~config.write_summary
    /\ log.epochs >= EvalFreq
    /\ loop.summaries = 0

\* C8: in both scripts every plot is saved as plotting/<epoch>.png through
\* the results object opened from --result-dir, and every evaluator run has
\* updated the results' metrics.
C8_PlotsAndMetricsViaResults ==
    pc \in {"epoch", "trained", "done"}
        => /\ \A p \in log.plots :
                /\ p.results = MLResults(config.result_dir)
                /\ p.filename[1] = "plotting/"
                /\ p.filename[2] <= loop.epoch
           /\ Len(SelectSeq(log.metrics, LAMBDA m : m.by = "evaluator")) = log.eval_runs

=============================================================================
